---- MODULE Spec2Model ----
(***************************************************************************)
(* Model of the image-merge generation core (src/services/geminiService.ts)*)
(* Strings on which the code computes (includes, template literals) are    *)
(* sequences of one-character strings; identifiers that are only compared  *)
(* with === are TLA+ strings.  A JavaScript object is a record whose       *)
(* DOMAIN holds exactly the properties that are present.                   *)
(***************************************************************************)
EXTENDS Integers, Sequences, FiniteSets, TLC

VARIABLES env, pc, args, calls, events, outcome,
          image1, image2, prompt, config, isGenerating, resultImage, error,
          reading, inFlight

\* The React state of App, the file reads under way and the pending calls.
ui == << image1, image2, prompt, config, isGenerating, resultImage, error,
         reading, inFlight >>

vars == << env, pc, args, calls, events, outcome,
           image1, image2, prompt, config, isGenerating, resultImage, error,
           reading, inFlight >>

---------------------------------------------------------------------------
(* Bounds of the explored input space *)

MaxWords ==
    1

MaxParts ==
    2

MaxCandidates ==
    2

MaxReading ==
    1

---------------------------------------------------------------------------
(* Program constants *)

MODEL_STANDARD ==
    "gemini-2.5-flash-image"

MODEL_HIGH_RES ==
    "gemini-3-pro-image-preview"

ImageQuality_STANDARD ==
    "Standard"

ImageQuality_HIGH ==
    "High (2K)"

IMAGE_SIZE_2K ==
    "2K"

DEFAULT_ASPECT_RATIO ==
    "1:1"

DEFAULT_QUALITY ==
    ImageQuality_STANDARD

MAX_FILE_SIZE_MB ==
    10

ACCEPTED_IMAGE_TYPES ==
    { "image/jpeg", "image/png", "image/webp" }

UploadBothMessage ==
    << "P", "l", "e", "a", "s", "e", " ", "u", "p", "l", "o", "a", "d", " ", "b", "o",
       "t", "h", " ", "i", "m", "a", "g", "e", "s", "." >>

DescribeMessage ==
    << "P", "l", "e", "a", "s", "e", " ", "d", "e", "s", "c", "r", "i", "b", "e", " ",
       "h", "o", "w", " ", "t", "o", " ", "m", "e", "r", "g", "e", " ", "t", "h", "e",
       " ", "i", "m", "a", "g", "e", "s", "." >>

FileTooLargeMessage ==
    << "F", "i", "l", "e", " ", "s", "i", "z", "e", " ", "t", "o", "o", " ", "l", "a",
       "r", "g", "e", ".", " ", "M", "a", "x", " ", "1", "0", "M", "B", "." >>

InvalidTypeMessage ==
    << "I", "n", "v", "a", "l", "i", "d", " ", "f", "i", "l", "e", " ", "t", "y", "p",
       "e", ".", " ", "P", "l", "e", "a", "s", "e", " ", "u", "p", "l", "o", "a", "d",
       " ", "J", "P", "G", ",", " ", "P", "N", "G", ",", " ", "o", "r", " ", "W", "E",
       "B", "P", "." >>

ProcessFailedMessage ==
    << "F", "a", "i", "l", "e", "d", " ", "t", "o", " ", "p", "r", "o", "c", "e", "s",
       "s", " ", "i", "m", "a", "g", "e", "." >>

GenericFailureMessage ==
    << "F", "a", "i", "l", "e", "d", " ", "t", "o", " ", "g", "e", "n", "e", "r", "a",
       "t", "e", " ", "i", "m", "a", "g", "e", ".", " ", "P", "l", "e", "a", "s", "e",
       " ", "t", "r", "y", " ", "a", "g", "a", "i", "n", "." >>

NEEDLE_PERMISSION_DENIED ==
    << "P", "E", "R", "M", "I", "S", "S", "I", "O", "N", "_", "D", "E", "N", "I", "E",
       "D" >>

NEEDLE_403 ==
    << "4", "0", "3" >>

MissingKeyMessage ==
    << "A", "P", "I", " ", "K", "e", "y", " ", "i", "s", " ", "m", "i", "s", "s", "i",
       "n", "g", ".", " ", "P", "l", "e", "a", "s", "e", " ", "e", "n", "s", "u", "r",
       "e", " ", "p", "r", "o", "c", "e", "s", "s", ".", "e", "n", "v", ".", "A", "P",
       "I", "_", "K", "E", "Y", " ", "i", "s", " ", "s", "e", "t", "." >>

NoImageMessage ==
    << "N", "o", " ", "i", "m", "a", "g", "e", " ", "g", "e", "n", "e", "r", "a", "t",
       "e", "d", ".", " ", "T", "h", "e", " ", "m", "o", "d", "e", "l", " ", "m", "i",
       "g", "h", "t", " ", "h", "a", "v", "e", " ", "r", "e", "f", "u", "s", "e", "d",
       " ", "t", "h", "e", " ", "r", "e", "q", "u", "e", "s", "t", "." >>

PermissionDeniedMessage ==
    << "P", "e", "r", "m", "i", "s", "s", "i", "o", "n", " ", "d", "e", "n", "i", "e",
       "d", ".", " ", "T", "h", "e", " ", "A", "P", "I", " ", "k", "e", "y", " ", "d",
       "o", "e", "s", " ", "n", "o", "t", " ", "h", "a", "v", "e", " ", "a", "c", "c",
       "e", "s", "s", " ", "t", "o", " ", "t", "h", "e", " ", "g", "e", "n", "e", "r",
       "a", "t", "i", "v", "e", " ", "A", "I", " ", "m", "o", "d", "e", "l", "s", ".",
       " ", "P", "l", "e", "a", "s", "e", " ", "c", "h", "e", "c", "k", " ", "t", "h",
       "a", "t", " ", "t", "h", "e", " ", "A", "P", "I", " ", "k", "e", "y", " ", "i",
       "s", " ", "v", "a", "l", "i", "d", " ", "a", "n", "d", " ", "t", "h", "e", " ",
       "A", "P", "I", " ", "i", "s", " ", "e", "n", "a", "b", "l", "e", "d", " ", "i",
       "n", " ", "y", "o", "u", "r", " ", "G", "o", "o", "g", "l", "e", " ", "C", "l",
       "o", "u", "d", " ", "p", "r", "o", "j", "e", "c", "t", "." >>

TypeErrorContentMessage ==
    << "C", "a", "n", "n", "o", "t", " ", "r", "e", "a", "d", " ", "p", "r", "o", "p",
       "e", "r", "t", "i", "e", "s", " ", "o", "f", " ", "u", "n", "d", "e", "f", "i",
       "n", "e", "d", " ", "(", "r", "e", "a", "d", "i", "n", "g", " ", "'", "c", "o",
       "n", "t", "e", "n", "t", "'", ")" >>

TypeErrorPartsMessage ==
    << "C", "a", "n", "n", "o", "t", " ", "r", "e", "a", "d", " ", "p", "r", "o", "p",
       "e", "r", "t", "i", "e", "s", " ", "o", "f", " ", "u", "n", "d", "e", "f", "i",
       "n", "e", "d", " ", "(", "r", "e", "a", "d", "i", "n", "g", " ", "'", "p", "a",
       "r", "t", "s", "'", ")" >>

DataUriPrefix ==
    << "d", "a", "t", "a", ":", "i", "m", "a", "g", "e", "/", "p", "n", "g", ";", "b",
       "a", "s", "e", "6", "4", "," >>

InstructionPrefix ==
    << "M", "e", "r", "g", "e", " ", "t", "h", "e", "s", "e", " ", "t", "w", "o", " ",
       "i", "m", "a", "g", "e", "s", " ", "i", "n", "t", "o", " ", "o", "n", "e", " ",
       "b", "a", "s", "e", "d", " ", "o", "n", " ", "t", "h", "i", "s", " ", "d", "e",
       "s", "c", "r", "i", "p", "t", "i", "o", "n", ":", " " >>

InstructionSuffix ==
    << ".", " ", "E", "n", "s", "u", "r", "e", " ", "t", "h", "e", " ", "r", "e", "s",
       "u", "l", "t", " ", "i", "s", " ", "a", " ", "s", "i", "n", "g", "l", "e", " ",
       "c", "o", "h", "e", "s", "i", "v", "e", " ", "i", "m", "a", "g", "e", "." >>

---------------------------------------------------------------------------
(* JavaScript values *)

\* An object with no property set ({} , or a missing optional structure).
EmptyObject ==
    << >>

\* obj.prop is present (not undefined).
Has(obj, prop) ==
    prop \in DOMAIN obj

\* String.prototype.includes
Includes(s, sub) ==
    \E i \in 0..(Len(s) - Len(sub)) : SubSeq(s, i + 1, i + Len(sub)) = sub

\* error.message?.includes(needle)
MessageIncludes(err, needle) ==
    Has(err, "message") /\ Includes(err.message, needle)

\* error.status === code
StatusIs(err, code) ==
    Has(err, "status") /\ err.status = code

\* new Error(message)
NewError(message) ==
    [message |-> message]

Returned(value) ==
    [type |-> "return", value |-> value]

\* A nullable React state value: null, or a value that is set.
NULL ==
    [null |-> TRUE]

NonNull(value) ==
    [value |-> value]

Whitespace ==
    { " ", "\t", "\n" }

\* String.prototype.trim
RECURSIVE Trim(_)
Trim(s) ==
    IF s = << >> THEN << >>
    ELSE IF Head(s) \in Whitespace THEN Trim(Tail(s))
    ELSE IF s[Len(s)] \in Whitespace THEN Trim(SubSeq(s, 1, Len(s) - 1))
    ELSE s

\* s.split(',')[1], "" when s has no comma (undefined in the code).
AfterFirstComma(s) ==
    IF \A i \in 1..Len(s) : s[i] # "," THEN << >>
    ELSE LET start == CHOOSE i \in 1..Len(s) :
                        s[i] = "," /\ \A j \in 1..(i - 1) : s[j] # ","
             stops == { i \in (start + 1)..Len(s) : s[i] = "," }
             stop  == IF stops = { } THEN Len(s) + 1
                      ELSE CHOOSE i \in stops : \A j \in stops : i <= j
         IN  SubSeq(s, start + 1, stop - 1)

Thrown(err) ==
    [type |-> "throw", error |-> err]

---------------------------------------------------------------------------
(* Inputs of one call and what the external capability can answer *)

WordHttp403 ==
    << "H", "T", "T", "P", " ", "4", "0", "3" >>

WordPermission ==
    << "P", "E", "R", "M", "I", "S", "S", "I", "O", "N", "_", "D", "E", "N", "I", "E",
       "D", "!" >>

WordQuota ==
    << "q", "u", "o", "t", "a" >>

Words ==
    { WordHttp403, WordPermission, WordQuota }

RECURSIVE MessagesOfLen(_)
MessagesOfLen(n) ==
    IF n = 0 THEN { << >> }
    ELSE { m \o w : m \in MessagesOfLen(n - 1), w \in Words }

\* Message texts: concatenations of at most MaxWords words ("" included).
Messages ==
    UNION { MessagesOfLen(n) : n \in 0..MaxWords }

Statuses ==
    { 403, 404, 500 }

\* Errors the capability can raise: status and message each optional.
Errors ==
    { EmptyObject }
    \cup { [status |-> s] : s \in Statuses }
    \cup { [message |-> m] : m \in Messages }
    \cup { [status |-> s, message |-> m] : s \in Statuses, m \in Messages }

DataAAAA ==
    << "A", "A", "A", "A" >>

DataBBBB ==
    << "B", "B", "B", "B" >>

Datas ==
    { DataAAAA, DataBBBB }

InlinePart(data) ==
    [inlineData |-> [data |-> data]]

TextPart(text) ==
    [text |-> text]

FirstParts ==
    { TextPart(t) : t \in Messages }
    \cup { InlinePart(d) : d \in Datas \cup { << >> } }
    \cup { EmptyObject }

LaterParts ==
    { TextPart(WordQuota), InlinePart(DataAAAA) }

RECURSIVE PartsOfLen(_)
PartsOfLen(n) ==
    IF n = 0 THEN { << >> }
    ELSE IF n = 1 THEN { << p >> : p \in FirstParts }
    ELSE { ps \o << p >> : ps \in PartsOfLen(n - 1), p \in LaterParts }

Contents ==
    { EmptyObject }
    \cup { [parts |-> ps] : ps \in UNION { PartsOfLen(n) : n \in 0..MaxParts } }

FirstCandidates ==
    { [finishReason |-> "SAFETY"] } \cup { [content |-> c] : c \in Contents }

LaterCandidates ==
    { [content |-> [parts |-> << TextPart(WordPermission), InlinePart(DataBBBB) >>]] }

RECURSIVE CandidatesOfLen(_)
CandidatesOfLen(n) ==
    IF n = 0 THEN { << >> }
    ELSE IF n = 1 THEN { << c >> : c \in FirstCandidates }
    ELSE { cs \o << c >> : cs \in CandidatesOfLen(n - 1), c \in LaterCandidates }

\* Responses the capability can return: candidates absent, empty or present.
Responses ==
    { EmptyObject }
    \cup { [candidates |-> cs] :
             cs \in UNION { CandidatesOfLen(n) : n \in 0..MaxCandidates } }

Qualities ==
    { ImageQuality_STANDARD, ImageQuality_HIGH }

\* The user's settings: a merge description with an aspect ratio.
Settings ==
    { [prompt |-> << "c", "a", "t" >>, aspectRatio |-> "1:1"],
      [prompt |-> << "4", "0", "3" >>, aspectRatio |-> "16:9"] }

ImageA ==
    [base64 |-> << "a", "A", "=", "=" >>, mimeType |-> "image/jpeg"]

ImageB ==
    [base64 |-> << "b", "B", "=", "=" >>, mimeType |-> "image/png"]

\* Argument lists of generateMergedImage.
Arguments ==
    { [image1Base64 |-> ImageA.base64, image1Mime |-> ImageA.mimeType,
       image2Base64 |-> ImageB.base64, image2Mime |-> ImageB.mimeType,
       prompt |-> s.prompt, aspectRatio |-> s.aspectRatio, quality |-> q] :
         s \in Settings, q \in Qualities }

\* process.env at call time: API_KEY unset, empty or set.
Environments ==
    { EmptyObject, [API_KEY |-> << >>], [API_KEY |-> << "k", "e", "y" >>] }

---------------------------------------------------------------------------
(* generateMergedImage *)

\* Variant: the credential check is skipped.
ApiKeyMissing_Never(e) ==
    FALSE

\* !apiKey
ApiKeyMissing(e) ==
    IF Has(e, "API_KEY") THEN e.API_KEY = << >> ELSE TRUE

\* Variant: the size hint is never added.
imageConfig_NeverSized(model, a) ==
    [aspectRatio |-> a.aspectRatio]

\* Variant: the image configuration is filled in for the Pro model only.
imageConfig_OnlyForHighRes(model, a) ==
    IF model = MODEL_HIGH_RES
    THEN [aspectRatio |-> a.aspectRatio, imageSize |-> IMAGE_SIZE_2K]
    ELSE EmptyObject

\* Variant: the size hint is added for every model.
imageConfig_AlwaysSized(model, a) ==
    [aspectRatio |-> a.aspectRatio, imageSize |-> IMAGE_SIZE_2K]

imageConfig(model, a) ==
    IF model = MODEL_HIGH_RES
    THEN [aspectRatio |-> a.aspectRatio, imageSize |-> IMAGE_SIZE_2K]
    ELSE [aspectRatio |-> a.aspectRatio]

\* Variant: the two images are sent in the opposite order.
makeRequest_SwappedImages(model, a) ==
    [model |-> model,
     contents |-> [parts |-> <<
         [text |-> InstructionPrefix \o a.prompt \o InstructionSuffix],
         [inlineData |-> [mimeType |-> a.image2Mime, data |-> a.image2Base64]],
         [inlineData |-> [mimeType |-> a.image1Mime, data |-> a.image1Base64]] >>],
     config |-> [imageConfig |-> imageConfig(model, a)]]

\* The request makeRequest(model) passes to ai.models.generateContent.
makeRequest(model, a) ==
    [model |-> model,
     contents |-> [parts |-> <<
         [text |-> InstructionPrefix \o a.prompt \o InstructionSuffix],
         [inlineData |-> [mimeType |-> a.image1Mime, data |-> a.image1Base64]],
         [inlineData |-> [mimeType |-> a.image2Mime, data |-> a.image2Base64]] >>],
     config |-> [imageConfig |-> imageConfig(model, a)]]

\* part.inlineData && part.inlineData.data
HasInlineData(part) ==
    /\ Has(part, "inlineData")
    /\ Has(part.inlineData, "data")
    /\ part.inlineData.data # << >>

\* response.candidates?.[0]?.content?.parts?.[0]?.text, "" when undefined.
LeadingText(response) ==
    IF /\ Has(response, "candidates")
       /\ response.candidates # << >>
       /\ Has(response.candidates[1], "content")
       /\ Has(response.candidates[1].content, "parts")
       /\ response.candidates[1].content.parts # << >>
       /\ Has(response.candidates[1].content.parts[1], "text")
    THEN response.candidates[1].content.parts[1].text
    ELSE << >>

\* Lines 69-74: the text feedback of the model, else the fixed message.
TextFeedback(response) ==
    IF LeadingText(response) # << >>
    THEN Thrown(NewError(LeadingText(response)))
    ELSE Thrown(NewError(NoImageMessage))

\* Variant: only the first part is examined for inline data.
ScanParts_FirstPartOnly(parts, response) ==
    IF parts # << >> /\ HasInlineData(parts[1])
    THEN Returned(DataUriPrefix \o parts[1].inlineData.data)
    ELSE TextFeedback(response)

\* The for loop of lines 62-66 over the parts of the first candidate.
ScanParts(parts, response) ==
    IF \E i \in 1..Len(parts) : HasInlineData(parts[i])
    THEN LET first == CHOOSE i \in 1..Len(parts) :
                        /\ HasInlineData(parts[i])
                        /\ \A j \in 1..(i - 1) : ~HasInlineData(parts[j])
         IN  Returned(DataUriPrefix \o parts[first].inlineData.data)
    ELSE TextFeedback(response)

extractImageFromResponse(response) ==
    IF ~Has(response, "candidates") THEN TextFeedback(response)
    ELSE IF response.candidates = << >>
         THEN Thrown(NewError(TypeErrorContentMessage))
    ELSE IF ~Has(response.candidates[1], "content")
         THEN Thrown(NewError(TypeErrorPartsMessage))
    ELSE IF ~Has(response.candidates[1].content, "parts")
         THEN TextFeedback(response)
    ELSE ScanParts(response.candidates[1].content.parts, response)

isHighRes(a) ==
    a.quality = ImageQuality_HIGH

initialModel(a) ==
    IF isHighRes(a) THEN MODEL_HIGH_RES ELSE MODEL_STANDARD

\* Variant: every error that carries a status counts as recoverable.
isPermissionOrNotFoundError_AnyStatus(firstError) ==
    \/ Has(firstError, "status")
    \/ MessageIncludes(firstError, NEEDLE_PERMISSION_DENIED)
    \/ MessageIncludes(firstError, NEEDLE_403)

isPermissionOrNotFoundError(firstError) ==
    \/ StatusIs(firstError, 403)
    \/ StatusIs(firstError, 404)
    \/ MessageIncludes(firstError, NEEDLE_PERMISSION_DENIED)
    \/ MessageIncludes(firstError, NEEDLE_403)

\* Variant: the fallback attempt is retried by the same handler.
CaughtByInnerTry_Always(position) ==
    TRUE

\* The inner try block encloses the first attempt only.
CaughtByInnerTry(position) ==
    position = "attempt1"

\* Variant: the fallback does not look at the requested quality.
ShouldFallBack_IgnoresQuality(a, firstError) ==
    isPermissionOrNotFoundError(firstError)

\* The condition of the fallback branch in the inner catch.
ShouldFallBack(a, firstError) ==
    isHighRes(a) /\ isPermissionOrNotFoundError(firstError)

\* Variant: the outer catch rethrows without mapping.
OuterCatch_Rethrow(err) ==
    err

\* The outer catch: the error generateMergedImage finally throws.
OuterCatch(err) ==
    IF StatusIs(err, 403) \/ MessageIncludes(err, NEEDLE_PERMISSION_DENIED)
    THEN NewError(PermissionDeniedMessage)
    ELSE err

---------------------------------------------------------------------------
(* State machine of one call *)

Init ==
    /\ env \in Environments
    /\ pc = "idle"
    /\ args = EmptyObject
    /\ calls = << >>
    /\ events = << >>
    /\ outcome = EmptyObject
    /\ image1 = NULL
    /\ image2 = NULL
    /\ prompt = << >>
    /\ config = [aspectRatio |-> DEFAULT_ASPECT_RATIO, quality |-> DEFAULT_QUALITY]
    /\ isGenerating = FALSE
    /\ resultImage = NULL
    /\ error = NULL
    /\ reading = << >>
    /\ inFlight = 0

\* A call of generateMergedImage(a) up to its first await (lines 14-84):
\* rejected before anything is built, or the first request issued.
Enter(a) ==
    /\ args' = a
    /\ events' = << >>
    /\ IF ApiKeyMissing(env)
       THEN /\ outcome' = Thrown(NewError(MissingKeyMessage))
            /\ pc' = "done"
            /\ calls' = << >>
       ELSE /\ calls' = << makeRequest(initialModel(a), a) >>
            /\ pc' = "attempt1"
            /\ outcome' = EmptyObject
    /\ UNCHANGED env

\* Lines 14-17: the call is rejected before anything is built.
CallWithoutKey(a) ==
    /\ pc = "idle"
    /\ ApiKeyMissing(env)
    /\ Enter(a)
    /\ UNCHANGED ui

\* Lines 19-84: the first request is issued and awaited.
CallStart(a) ==
    /\ pc = "idle"
    /\ ~ApiKeyMissing(env)
    /\ Enter(a)
    /\ UNCHANGED ui

\* An error reaches the catch clauses from the current position.
Catch(err) ==
    IF CaughtByInnerTry(pc) /\ ShouldFallBack(args, err)
    THEN /\ calls' = Append(calls, makeRequest(MODEL_STANDARD, args))
         /\ pc' = "attempt2"
         /\ UNCHANGED outcome
    ELSE /\ outcome' = Thrown(OuterCatch(err))
         /\ pc' = "done"
         /\ UNCHANGED calls

\* What follows the awaited invocation: a value returned or an error thrown.
Continue(result) ==
    IF result.type = "return"
    THEN /\ outcome' = result
         /\ pc' = "done"
         /\ UNCHANGED calls
    ELSE Catch(result.error)

\* The awaited invocation rejects with error e.
CapabilityRaises(e) ==
    /\ pc \in { "attempt1", "attempt2" }
    /\ events' = Append(events, [type |-> "raise", error |-> e])
    /\ Continue(Thrown(e))
    /\ UNCHANGED << env, args >>
    /\ UNCHANGED ui

\* The awaited invocation resolves with response r, which is then extracted.
CapabilityReturns(r) ==
    /\ pc \in { "attempt1", "attempt2" }
    /\ events' = Append(events, [type |-> "return", response |-> r])
    /\ Continue(extractImageFromResponse(r))
    /\ UNCHANGED << env, args >>
    /\ UNCHANGED ui

Next ==
    \/ \E a \in Arguments : CallWithoutKey(a)
    \/ \E a \in Arguments : CallStart(a)
    \/ \E e \in Errors : CapabilityRaises(e)
    \/ \E r \in Responses : CapabilityReturns(r)

Spec ==
    Init /\ [][Next]_vars

---------------------------------------------------------------------------
(* App (src/App.tsx): the page state, its event handlers, and the           *)
(* continuation of handleGenerate that runs when the call has settled       *)

DataUrlA ==
    << "d", "a", "t", "a", ":", "i", "m", "a", "g", "e", "/", "j", "p", "e", "g", ";",
       "b", "a", "s", "e", "6", "4", ",", "a", "A", "=", "=" >>

\* Files the user can pick: what FileReader.readAsDataURL yields is dataUrl.
FileA ==
    [size |-> MAX_FILE_SIZE_MB * 1024 * 1024, type |-> "image/jpeg",
     dataUrl |-> DataUrlA]

FileBig ==
    [size |-> MAX_FILE_SIZE_MB * 1024 * 1024 + 1, type |-> "image/png",
     dataUrl |-> DataUrlA]

FileGif ==
    [size |-> 2048, type |-> "image/gif", dataUrl |-> DataUrlA]

Files ==
    { FileA, FileBig, FileGif }

Slots ==
    { 1, 2 }

\* Texts the user can have in the description field.
PromptInputs ==
    { << >>, << " " >>, << "c", "a", "t" >> }

AspectRatioChoices ==
    { "1:1", "16:9" }

\* Answers of the capability while the page is modelled: one error and one
\* response of each kind the handlers tell apart.
PageErrors ==
    { EmptyObject, [status |-> 500], [message |-> << >>],
      [status |-> 500, message |-> WordQuota],
      [status |-> 403], [status |-> 404, message |-> WordHttp403] }

PageResponses ==
    { EmptyObject,
      [candidates |-> << [content |-> [parts |-> << InlinePart(DataAAAA) >>]] >>],
      [candidates |-> << [content |-> [parts |-> << TextPart(WordQuota) >>]] >>],
      [candidates |-> << [content |-> [parts |-> << TextPart(WordHttp403) >>]] >>] }

\* readFileAsBase64: the part of the data URL after the comma.
readFileAsBase64(file) ==
    AfterFirstComma(file.dataUrl)

\* The UploadedImage built by handleUpload (the preview URL is not modelled).
newImage(file) ==
    [base64 |-> readFileAsBase64(file), mimeType |-> file.type]

\* Variant: the button stays enabled while a generation is running.
GenerateDisabled_IgnoresGenerating ==
    image1 = NULL \/ image2 = NULL \/ prompt = << >>

\* disabled={isGenerating || !image1 || !image2 || !prompt}
GenerateDisabled ==
    isGenerating \/ image1 = NULL \/ image2 = NULL \/ prompt = << >>

\* Variant: the description is not trimmed before the check.
PromptIsBlank_NoTrim(p) ==
    p = << >>

\* !prompt.trim()
PromptIsBlank(p) ==
    Trim(p) = << >>

\* Variant: the message of the error is shown without a default.
errorMessage_NoDefault(err) ==
    IF Has(err, "message") THEN err.message ELSE << >>

\* Variant: the generic text is shown for every failure.
errorMessage_AlwaysGeneric(err) ==
    GenericFailureMessage

\* err.message || 'Failed to generate image. Please try again.'
errorMessage(err) ==
    IF Has(err, "message") /\ err.message # << >>
    THEN err.message
    ELSE GenericFailureMessage

\* Variant: isGenerating is reset after a successful call only.
GeneratingAfterSettle_OnlyOnSuccess(result) ==
    result.type # "return"

\* The finally block: setIsGenerating(false) whatever the call yielded.
GeneratingAfterSettle(result) ==
    FALSE

\* The handleGenerate continuation is queued: it runs before any other event.
SettlePending ==
    pc = "done" /\ inFlight > 0

\* Lines 35-44 and 46: the file is refused, or its read is started.
handleUpload(file, slot) ==
    /\ ~SettlePending
    /\ IF slot = 1 THEN image1 = NULL ELSE image2 = NULL
    /\ IF file.size > MAX_FILE_SIZE_MB * 1024 * 1024
       THEN /\ error' = NonNull(FileTooLargeMessage)
            /\ UNCHANGED reading
       ELSE IF file.type \notin ACCEPTED_IMAGE_TYPES
       THEN /\ error' = NonNull(InvalidTypeMessage)
            /\ UNCHANGED reading
       ELSE /\ Len(reading) < MaxReading
            /\ reading' = Append(reading, [file |-> file, slot |-> slot])
            /\ UNCHANGED error
    /\ UNCHANGED << env, pc, args, calls, events, outcome >>
    /\ UNCHANGED << image1, image2, prompt, config, isGenerating, resultImage,
                    inFlight >>

RemoveAt(seq, i) ==
    SubSeq(seq, 1, i - 1) \o SubSeq(seq, i + 1, Len(seq))

\* Lines 46-57: the read has succeeded, the slot is filled.
ReadResolves(i) ==
    /\ ~SettlePending
    /\ i \in 1..Len(reading)
    /\ IF reading[i].slot = 1
       THEN image1' = NonNull(newImage(reading[i].file)) /\ UNCHANGED image2
       ELSE image2' = NonNull(newImage(reading[i].file)) /\ UNCHANGED image1
    /\ error' = NULL
    /\ reading' = RemoveAt(reading, i)
    /\ UNCHANGED << env, pc, args, calls, events, outcome >>
    /\ UNCHANGED << prompt, config, isGenerating, resultImage, inFlight >>

\* Lines 58-60: the read has failed.
ReadRejects(i) ==
    /\ ~SettlePending
    /\ i \in 1..Len(reading)
    /\ error' = NonNull(ProcessFailedMessage)
    /\ reading' = RemoveAt(reading, i)
    /\ UNCHANGED << env, pc, args, calls, events, outcome >>
    /\ UNCHANGED << image1, image2, prompt, config, isGenerating, resultImage,
                    inFlight >>

\* The remove button of a filled slot.
handleRemoveImage(slot) ==
    /\ ~SettlePending
    /\ IF slot = 1
       THEN image1 # NULL /\ image1' = NULL /\ UNCHANGED image2
       ELSE image2 # NULL /\ image2' = NULL /\ UNCHANGED image1
    /\ UNCHANGED << env, pc, args, calls, events, outcome >>
    /\ UNCHANGED << prompt, config, isGenerating, resultImage, error, reading,
                    inFlight >>

\* The description field is edited.
setPrompt(p) ==
    /\ ~SettlePending
    /\ prompt' = p
    /\ UNCHANGED << env, pc, args, calls, events, outcome >>
    /\ UNCHANGED << image1, image2, config, isGenerating, resultImage, error,
                    reading, inFlight >>

\* One of the two selects is changed.
setConfig(c) ==
    /\ ~SettlePending
    /\ config' = c
    /\ UNCHANGED << env, pc, args, calls, events, outcome >>
    /\ UNCHANGED << image1, image2, prompt, isGenerating, resultImage, error,
                    reading, inFlight >>

setAspectRatio(ratio) ==
    setConfig([config EXCEPT !.aspectRatio = ratio])

setQuality(quality) ==
    setConfig([config EXCEPT !.quality = quality])

\* The reset button: shown when something is filled, disabled while generating.
handleReset ==
    /\ ~SettlePending
    /\ image1 # NULL \/ image2 # NULL \/ prompt # << >> \/ resultImage # NULL
    /\ ~isGenerating
    /\ image1' = NULL
    /\ image2' = NULL
    /\ prompt' = << >>
    /\ resultImage' = NULL
    /\ error' = NULL
    /\ config' = [aspectRatio |-> DEFAULT_ASPECT_RATIO, quality |-> DEFAULT_QUALITY]
    /\ UNCHANGED << env, pc, args, calls, events, outcome >>
    /\ UNCHANGED << isGenerating, reading, inFlight >>

\* The arguments handleGenerate passes to generateMergedImage (lines 88-96).
generateArguments ==
    [image1Base64 |-> image1.value.base64, image1Mime |-> image1.value.mimeType,
     image2Base64 |-> image2.value.base64, image2Mime |-> image2.value.mimeType,
     prompt |-> prompt, aspectRatio |-> config.aspectRatio,
     quality |-> config.quality]

\* A click on the generate button: lines 73-96, up to the await.
handleGenerate ==
    /\ ~SettlePending
    /\ ~GenerateDisabled
    /\ IF image1 = NULL \/ image2 = NULL
       THEN /\ error' = NonNull(UploadBothMessage)
            /\ UNCHANGED << env, pc, args, calls, events, outcome >>
            /\ UNCHANGED << isGenerating, resultImage, inFlight >>
       ELSE IF PromptIsBlank(prompt)
       THEN /\ error' = NonNull(DescribeMessage)
            /\ UNCHANGED << env, pc, args, calls, events, outcome >>
            /\ UNCHANGED << isGenerating, resultImage, inFlight >>
       ELSE /\ isGenerating' = TRUE
            /\ error' = NULL
            /\ resultImage' = NULL
            /\ Enter(generateArguments)
            /\ inFlight' = inFlight + 1
    /\ UNCHANGED << image1, image2, prompt, config, reading >>

\* Lines 97-110: the call has settled; its locals are dropped afterwards.
Settle ==
    /\ SettlePending
    /\ IF outcome.type = "return"
       THEN /\ resultImage' = NonNull(outcome.value)
            /\ UNCHANGED error
       ELSE /\ error' = NonNull(errorMessage(outcome.error))
            /\ UNCHANGED resultImage
    /\ isGenerating' = GeneratingAfterSettle(outcome)
    /\ inFlight' = inFlight - 1
    /\ pc' = "idle"
    /\ args' = EmptyObject
    /\ calls' = << >>
    /\ events' = << >>
    /\ outcome' = EmptyObject
    /\ UNCHANGED << env, image1, image2, prompt, config, reading >>

\* The capability answers the pending invocation.
CapabilityAnswers ==
    \/ \E e \in PageErrors : CapabilityRaises(e)
    \/ \E r \in PageResponses : CapabilityReturns(r)

NextApp ==
    \/ \E f \in Files, slot \in Slots : handleUpload(f, slot)
    \/ \E i \in 1..MaxReading : ReadResolves(i)
    \/ \E i \in 1..MaxReading : ReadRejects(i)
    \/ \E slot \in Slots : handleRemoveImage(slot)
    \/ \E p \in PromptInputs : setPrompt(p)
    \/ \E ratio \in AspectRatioChoices : setAspectRatio(ratio)
    \/ \E q \in Qualities : setQuality(q)
    \/ handleReset
    \/ handleGenerate
    \/ CapabilityAnswers
    \/ Settle

SpecApp ==
    Init /\ [][NextApp]_vars

\* The transport answers every invocation and queued continuations run.
SpecAppFair ==
    SpecApp /\ WF_vars(CapabilityAnswers) /\ WF_vars(Settle)

---------------------------------------------------------------------------
(* Vocabulary of the properties *)

\* The requested quality of the call in progress.
RequestedHigh ==
    Has(args, "quality") /\ args.quality = ImageQuality_HIGH

RequestedStandard ==
    Has(args, "quality") /\ args.quality = ImageQuality_STANDARD

\* The i-th invocation rejected / resolved.
RaisedAt(i) ==
    i \in 1..Len(events) /\ events[i].type = "raise"

ReturnedAt(i) ==
    i \in 1..Len(events) /\ events[i].type = "return"

\* The specification's class AccessDenied of an invocation error.
AccessDenied(e) ==
    \/ (Has(e, "status") /\ e.status \in { 403, 404 })
    \/ (Has(e, "message") /\ Includes(e.message, NEEDLE_PERMISSION_DENIED))
    \/ (Has(e, "message") /\ Includes(e.message, NEEDLE_403))

\* The generation ended because the last invocation rejected.
TerminalRaise ==
    pc = "done" /\ RaisedAt(Len(events))

Failed ==
    pc = "done" /\ outcome.type = "throw"

Succeeded ==
    pc = "done" /\ outcome.type = "return"

\* A part carries inline image data.
CarriesData(part) ==
    Has(part, "inlineData") /\ Has(part.inlineData, "data")
    /\ part.inlineData.data # << >>

\* The parts of the first candidate of r, << >> when there are none.
FirstCandidateParts(r) ==
    IF /\ Has(r, "candidates")
       /\ r.candidates # << >>
       /\ Has(r.candidates[1], "content")
       /\ Has(r.candidates[1].content, "parts")
    THEN r.candidates[1].content.parts
    ELSE << >>

\* r is a refusal: no inline data in the first candidate, leading text t.
IsRefusal(r) ==
    /\ \A k \in 1..Len(FirstCandidateParts(r)) : ~CarriesData(FirstCandidateParts(r)[k])
    /\ FirstCandidateParts(r) # << >>
    /\ Has(FirstCandidateParts(r)[1], "text")
    /\ FirstCandidateParts(r)[1].text # << >>

---------------------------------------------------------------------------
(* Properties *)

\* C1: when the quality is High and the first invocation fails with an
\* AccessDenied error, exactly one more invocation is made (after the first
\* outcome is known), it targets the Standard model and carries no size hint.
C1_FallbackAfterAccessDenied ==
    /\ Len(calls) <= Len(events) + 1
    /\ (RequestedHigh /\ RaisedAt(1) /\ AccessDenied(events[1].error))
         => /\ Len(calls) = 2
            /\ calls[2].model = MODEL_STANDARD
            /\ ~Has(calls[2].config.imageConfig, "imageSize")

C1_Witness ==
    /\ RequestedHigh /\ Succeeded
    /\ RaisedAt(1) /\ events[1].error = [status |-> 404]
    /\ Len(calls) = 2

\* C2: on a High-tier first attempt, a response that was returned (whatever
\* the extractor makes of it, refusal texts of any content included) never
\* triggers a second invocation.
C2_ExtractorFailureNeverFallsBack ==
    (RequestedHigh /\ ReturnedAt(1)) => Len(calls) = 1

\* C3: when the quality is Standard, any invocation error ends the
\* generation: exactly one invocation is made and the call fails with that
\* error (under the message mapping of the outermost boundary).
C3_StandardNeverFallsBack ==
    (RequestedStandard /\ RaisedAt(1))
      => /\ Len(calls) = 1 /\ Len(events) = 1
         /\ Failed
         /\ outcome.error \in { events[1].error, NewError(PermissionDeniedMessage) }

C3_Witness ==
    /\ RequestedStandard /\ Failed
    /\ RaisedAt(1) /\ events[1].error = [status |-> 404, message |-> WordHttp403]

\* C4: when the quality is High and the first invocation fails with an error
\* that is not AccessDenied, there is no fallback: the Standard model is never
\* invoked and the generation ends in failure.
C4_HighOtherErrorNoFallback ==
    (RequestedHigh /\ RaisedAt(1) /\ ~AccessDenied(events[1].error))
      => /\ Len(calls) = 1
         /\ \A i \in 1..Len(calls) : calls[i].model # MODEL_STANDARD
         /\ Failed

C4_Witness ==
    /\ RequestedHigh /\ Failed
    /\ RaisedAt(1) /\ events[1].error = [status |-> 500, message |-> WordQuota]
    /\ Len(calls) = 1

\* C5: one call performs at most two invocations, and whatever the second
\* attempt yields is terminal: no third invocation is made.
C5_AtMostTwoInvocations ==
    /\ Len(calls) <= 2
    /\ Len(events) = 2 => (pc = "done" /\ outcome # EmptyObject)

C5_Witness ==
    /\ pc = "done" /\ Len(calls) = 2
    /\ RaisedAt(2) /\ events[2].error = [status |-> 403]

\* C6 (as stated): whenever the generation ends in failure because of an
\* invocation error classified AccessDenied, the message shown is the fixed
\* permission-denied string.
C6_AccessDeniedShowsFixedMessage ==
    (TerminalRaise /\ AccessDenied(events[Len(events)].error))
      => outcome = Thrown(NewError(PermissionDeniedMessage))

\* C6 (amended): a terminal invocation error with status 403 or a message
\* containing "PERMISSION_DENIED" is shown as the fixed permission-denied
\* string; an error that is AccessDenied only by status 404 or by "403" in
\* its message is thrown unchanged.
C6_PermissionErrorsShowFixedMessage ==
    TerminalRaise =>
      LET e == events[Len(events)].error IN
      /\ ((Has(e, "status") /\ e.status = 403)
            \/ (Has(e, "message") /\ Includes(e.message, NEEDLE_PERMISSION_DENIED)))
           => outcome = Thrown(NewError(PermissionDeniedMessage))
      /\ (/\ AccessDenied(e)
          /\ ~(Has(e, "status") /\ e.status = 403)
          /\ ~(Has(e, "message") /\ Includes(e.message, NEEDLE_PERMISSION_DENIED)))
           => outcome = Thrown(e)

C6_Witness ==
    /\ TerminalRaise /\ Len(events) = 2
    /\ events[2].error = [status |-> 403, message |-> WordQuota]
    /\ outcome = Thrown(NewError(PermissionDeniedMessage))

\* C7: when a returned response has no inline image data in its first
\* candidate and the first part of that candidate carries non-empty text t,
\* the generation ends in a failure whose message is exactly t.
C7_RefusalTextVerbatim ==
    \A i \in 1..Len(events) :
      (ReturnedAt(i) /\ IsRefusal(events[i].response))
        => /\ pc = "done" /\ i = Len(events)
           /\ outcome = Thrown(NewError(FirstCandidateParts(events[i].response)[1].text))

\* C8: for a response with no candidates (the list absent or empty) the
\* extractor yields the failure "No image generated. The model might have
\* refused the request."
C8_NoCandidatesNoImageMessage ==
    \A i \in 1..Len(events) :
      (/\ ReturnedAt(i)
       /\ (Has(events[i].response, "candidates")
             => events[i].response.candidates = << >>))
        => extractImageFromResponse(events[i].response)
             = Thrown(NewError(NoImageMessage))

\* C9: when the first candidate of a returned response has inline data in
\* any part position, the result is success with "data:image/png;base64,"
\* followed by the data of the first part that carries data; candidates after
\* the first never change the result.
C9_FirstInlineDataReturned ==
    \A i \in 1..Len(events) :
      ReturnedAt(i) =>
        LET r     == events[i].response
            parts == FirstCandidateParts(r)
        IN  /\ \A k \in 1..Len(parts) :
                 (CarriesData(parts[k]) /\ \A j \in 1..(k - 1) : ~CarriesData(parts[j]))
                   => /\ i = Len(events) /\ pc = "done"
                      /\ outcome = Returned(DataUriPrefix \o parts[k].inlineData.data)
            /\ (Has(r, "candidates") /\ Len(r.candidates) > 1)
                 => extractImageFromResponse(r)
                      = extractImageFromResponse([candidates |-> << r.candidates[1] >>])

C9_Witness ==
    /\ Succeeded /\ ReturnedAt(1)
    /\ events[1].response =
         [candidates |-> << [content |-> [parts |->
                               << TextPart(WordPermission), InlinePart(DataAAAA) >>]],
                            [content |-> [parts |->
                               << TextPart(WordPermission), InlinePart(DataBBBB) >>]] >>]
    /\ outcome = Returned(DataUriPrefix \o DataAAAA)

\* C10: when the API credential is absent at call time the call fails with
\* the missing-credential error and no request is ever built or issued.
C10_MissingCredentialShortCircuits ==
    ~Has(env, "API_KEY")
      => /\ calls = << >> /\ events = << >>
         /\ pc \in { "idle", "done" }
         /\ pc = "done" => outcome = Thrown(NewError(MissingKeyMessage))

C10_Witness ==
    /\ ~Has(env, "API_KEY") /\ pc = "done"
    /\ RequestedHigh
    /\ outcome = Thrown(NewError(MissingKeyMessage))

\* C13: in every invocation issued, the configuration carries the size hint
\* "2K" if and only if the invocation targets the High model; invocations of
\* the Standard model never carry a size hint.
C13_SizeHintIffHighModel ==
    \A i \in 1..Len(calls) :
      LET cfg == calls[i].config.imageConfig IN
      /\ calls[i].model \in { MODEL_HIGH_RES, MODEL_STANDARD }
      /\ Has(cfg, "imageSize") <=> calls[i].model = MODEL_HIGH_RES
      /\ Has(cfg, "imageSize") => cfg.imageSize = "2K"

C13_Witness ==
    /\ Len(calls) = 2
    /\ calls[1].config.imageConfig.imageSize = "2K"
    /\ ~Has(calls[2].config.imageConfig, "imageSize")
    /\ calls[2].model = MODEL_STANDARD

\* C14: every request has exactly three content parts in a fixed order: the
\* merge instruction text, then the inline data of image A, then the inline
\* data of image B, for every input and for both attempts.
C14_ThreePartsInOrder ==
    \A i \in 1..Len(calls) :
      LET parts == calls[i].contents.parts IN
      /\ Len(parts) = 3
      /\ parts[1] = [text |-> InstructionPrefix \o args.prompt \o InstructionSuffix]
      /\ parts[2] = [inlineData |->
                       [mimeType |-> args.image1Mime, data |-> args.image1Base64]]
      /\ parts[3] = [inlineData |->
                       [mimeType |-> args.image2Mime, data |-> args.image2Base64]]

C14_Witness ==
    /\ Len(calls) = 2
    /\ args.prompt = << "4", "0", "3" >>
    /\ calls[2].contents.parts[2].inlineData.data = ImageA.base64
    /\ calls[2].contents.parts[3].inlineData.data = ImageB.base64

\* C19: the fallback request differs from the first request only in the model
\* identifier and the size hint: same instruction text, same image data and
\* MIME types, same aspect ratio.
C19_FallbackKeepsPayload ==
    Len(calls) >= 2 =>
      /\ calls[2].contents = calls[1].contents
      /\ DOMAIN calls[2] = DOMAIN calls[1]
      /\ DOMAIN calls[2].config = DOMAIN calls[1].config
      /\ Has(calls[2].config.imageConfig, "aspectRatio")
      /\ calls[2].config.imageConfig.aspectRatio
           = calls[1].config.imageConfig.aspectRatio
      /\ DOMAIN calls[1].config.imageConfig \ { "imageSize" }
           = DOMAIN calls[2].config.imageConfig \ { "imageSize" }

C19_Witness ==
    /\ Len(calls) = 2 /\ pc = "done"
    /\ calls[1].model = MODEL_HIGH_RES /\ calls[2].model = MODEL_STANDARD
    /\ calls[1].config.imageConfig.aspectRatio = "16:9"

---------------------------------------------------------------------------
(* Properties of the page *)

\* A step in which a call of generateMergedImage is started / has completed.
CallStarts ==
    inFlight' > inFlight

CallCompletes ==
    inFlight' < inFlight

\* v is "data:image/png;base64," followed by a non-empty payload.
IsImageDataUri(v) ==
    /\ Len(v) > Len(DataUriPrefix)
    /\ SubSeq(v, 1, Len(DataUriPrefix)) = DataUriPrefix

\* C11: every path through a generation ends in a success carrying an image
\* data URI or in a failure with a non-empty message; an error raised by the
\* capability or by the extractor at the last attempt is never lost, also
\* when its message is empty or missing.
C11_EveryPathEndsInOutcome ==
    [][ CallCompletes =>
          /\ outcome.type \in { "return", "throw" }
          /\ outcome.type = "return"
               => /\ IsImageDataUri(outcome.value)
                  /\ resultImage' = NonNull(outcome.value)
          /\ outcome.type = "throw"
               => /\ error' # NULL
                  /\ error'.value # << >>
          /\ RaisedAt(Len(events)) => outcome.type = "throw"
          /\ (/\ ReturnedAt(Len(events))
              /\ extractImageFromResponse(events[Len(events)].response).type = "throw")
               => outcome.type = "throw"
      ]_vars

C11_Witness ==
    /\ pc = "idle" /\ ~isGenerating /\ inFlight = 0
    /\ error = NonNull(GenericFailureMessage)
    /\ resultImage = NULL

\* C12: at most one generation is in flight at any time: a call of
\* generateMergedImage is never started while an earlier one is pending.
C12_AtMostOneInFlight ==
    /\ inFlight <= 1
    /\ pc \in { "attempt1", "attempt2" } => (inFlight = 1 /\ isGenerating)

C12_Witness ==
    /\ inFlight = 1 /\ pc = "attempt2" /\ isGenerating
    /\ image1 # NULL /\ image2 # NULL /\ prompt = << "c", "a", "t" >>

\* C15: for a terminal invocation error that is not AccessDenied the notice
\* shows the message of the error when it has a non-empty one, and otherwise
\* "Failed to generate image. Please try again."
C15_OtherErrorsShowOwnMessage ==
    [][ (/\ CallCompletes
         /\ RaisedAt(Len(events))
         /\ ~AccessDenied(events[Len(events)].error))
          => LET e == events[Len(events)].error IN
             error' = NonNull(IF Has(e, "message") /\ e.message # << >>
                              THEN e.message
                              ELSE GenericFailureMessage)
      ]_vars

C15_Witness ==
    /\ pc = "idle" /\ ~isGenerating /\ inFlight = 0
    /\ error = NonNull(WordQuota)

\* C16: every generation that handleGenerate starts eventually completes,
\* given that every invocation is answered: isGenerating returns to false on
\* success and on every failure.
C16_GenerationCompletes ==
    isGenerating ~> (~isGenerating /\ inFlight = 0)

C16_Witness ==
    /\ ~isGenerating /\ inFlight = 0 /\ pc = "idle"
    /\ error = NonNull(PermissionDeniedMessage)

\* C17: immediately after a generation completes, exactly one of resultImage
\* and error is non-null, whatever events interleaved while it was in flight.
C17_ExactlyOneOfResultAndError ==
    [][ CallCompletes => ((resultImage' = NULL) # (error' = NULL)) ]_vars

\* C18: handleGenerate calls generateMergedImage only when both slots are
\* filled and the description is not blank after trimming; a rejected click
\* sets the error notice and leaves isGenerating, resultImage, both slots and
\* the call state unchanged.
C18_GenerateOnlyWithValidInput ==
    [][ /\ CallStarts
          => /\ image1 # NULL /\ image2 # NULL
             /\ \E k \in 1..Len(prompt) : prompt[k] \notin Whitespace
        /\ (/\ error' \in { NonNull(UploadBothMessage), NonNull(DescribeMessage) }
            /\ error' # error)
          => UNCHANGED << isGenerating, resultImage, image1, image2, inFlight,
                          pc, calls >>
      ]_vars

C18_Witness ==
    /\ error = NonNull(DescribeMessage)
    /\ image1 # NULL /\ image2 # NULL /\ prompt = << " " >>
    /\ ~isGenerating /\ pc = "idle"

====
